---- MODULE Spec2Model ----
(***************************************************************************)
(* Model of the resumable batch translation pipeline of                    *)
(* src/src/translator.py (SubtitleTranslator) together with the writer of  *)
(* src/src/srt_parser.py.                                                  *)
(*                                                                         *)
(* Strings are sequences of atoms.  An atom is a one-character string, or  *)
(* a chunk the code never looks into (a timestamp, the " --> " separator). *)
(* Files are records: the checkpoint file holds a JSON value or garbage,   *)
(* the output file holds text.                                             *)
(***************************************************************************)
EXTENDS Integers, Sequences, FiniteSets, TLC

(* ------------------------------ bounds -------------------------------- *)

MaxEntries == 3

MaxBatch == 2

ExampleEntries == 5

DefaultBatch == 10

MaxRuns == 2

MaxReplyItems == 2

MaxReplyLines == 3

MaxWritten == 2

(* ------------------------------ strings ------------------------------- *)

Min(a, b) == IF a < b THEN a ELSE b

Letters == <<"a", "b", "c", "d", "e", "f", "g", "h", "i", "j", "k", "l">>

Capitals == <<"A", "B", "C", "D", "E", "F", "G", "H", "I", "J", "K", "L">>

DigitChars == <<"0", "1", "2", "3", "4", "5", "6", "7", "8", "9">>

Stamps == <<"00:00:01,000", "00:00:02,000", "00:00:03,000", "00:00:04,000",
            "00:00:05,000", "00:00:06,000", "00:00:07,000", "00:00:08,000",
            "00:00:09,000", "00:00:10,000", "00:00:11,000", "00:00:12,000">>

Whitespace == {" ", "\t", "\n"}

RECURSIVE IntToStr(_)
IntToStr(n) ==
    IF n < 10 THEN <<DigitChars[n + 1]>>
    ELSE IntToStr(n \div 10) \o <<DigitChars[(n % 10) + 1]>>

StartsWith(s, prefix) ==
    /\ Len(s) >= Len(prefix)
    /\ SubSeq(s, 1, Len(prefix)) = prefix

Drop(s, n) == SubSeq(s, n + 1, Len(s))

RECURSIVE LStrip(_)
LStrip(s) ==
    IF s # <<>> /\ Head(s) \in Whitespace THEN LStrip(Tail(s)) ELSE s

RECURSIVE RStrip(_)
RStrip(s) ==
    IF s # <<>> /\ s[Len(s)] \in Whitespace
    THEN RStrip(SubSeq(s, 1, Len(s) - 1)) ELSE s

Strip(s) == RStrip(LStrip(s))

RECURSIVE Replace(_, _)
Replace(s, old) ==
    IF s = <<>> THEN <<>>
    ELSE IF StartsWith(s, old) THEN Replace(Drop(s, Len(old)), old)
    ELSE <<Head(s)>> \o Replace(Tail(s), old)

(* ------------------------------ entries ------------------------------- *)

SubtitleEntry(index, start_time, end_time, text) ==
    [index |-> index, start_time |-> start_time,
     end_time |-> end_time, text |-> text]

SourceText(j) == <<Letters[j]>>

ParsedEntries(n) ==
    [j \in 1..n |->
        SubtitleEntry(j, <<Stamps[j]>>, <<Stamps[j + 1]>>, SourceText(j))]

ToSrtFormat(e) ==
    IntToStr(e.index) \o <<"\n">> \o e.start_time \o <<" --> ">>
        \o e.end_time \o <<"\n">> \o e.text \o <<"\n">>

RECURSIVE SrtText(_)
SrtText(es) ==
    IF es = <<>> THEN <<>>
    ELSE ToSrtFormat(Head(es)) \o <<"\n">> \o SrtText(Tail(es))

(* ------------------------------- parser ------------------------------- *)

FirstAt(s, sep) ==
    LET hits == {k \in 1..(Len(s) - Len(sep) + 1) :
                    SubSeq(s, k, k + Len(sep) - 1) = sep}
    IN IF hits = {} THEN 0
       ELSE CHOOSE k \in hits : \A m \in hits : k <= m

RECURSIVE Split(_, _)
Split(s, sep) ==
    LET k == FirstAt(s, sep) IN
    IF k = 0 THEN <<s>>
    ELSE <<SubSeq(s, 1, k - 1)>> \o Split(Drop(s, k + Len(sep) - 1), sep)

RECURSIVE Join(_, _)
Join(lines, sep) ==
    IF lines = <<>> THEN <<>>
    ELSE IF Len(lines) = 1 THEN lines[1]
    ELSE lines[1] \o sep \o Join(Tail(lines), sep)

IsInt(line) ==
    /\ Strip(line) # <<>>
    /\ \A k \in 1..Len(Strip(line)) :
           \E d \in 1..10 : DigitChars[d] = Strip(line)[k]

RECURSIVE DigitsValue(_)
DigitsValue(digits) ==
    IF digits = <<>> THEN 0
    ELSE 10 * DigitsValue(SubSeq(digits, 1, Len(digits) - 1))
           + (CHOOSE d \in 0..9 : DigitChars[d + 1] = digits[Len(digits)])

ParseInt(line) == DigitsValue(Strip(line))

IsStamp(atom) == \E k \in 1..Len(Stamps) : Stamps[k] = atom

TimeMatch(line) ==
    /\ Len(line) >= 3
    /\ IsStamp(line[1])
    /\ line[2] = " --> "
    /\ IsStamp(line[3])

RECURSIVE ParseBlocks(_)
ParseBlocks(blocks) ==
    IF blocks = <<>> THEN <<>>
    ELSE LET block == Strip(Head(blocks))
             lines == Split(block, <<"\n">>)
             rest == ParseBlocks(Tail(blocks))
         IN IF block = <<>> THEN rest
            ELSE IF Len(lines) < 3 THEN rest
            ELSE IF ~IsInt(lines[1]) THEN rest
            ELSE IF ~TimeMatch(lines[2]) THEN rest
            ELSE <<SubtitleEntry(ParseInt(lines[1]), <<lines[2][1]>>,
                                 <<lines[2][3]>>,
                                 Join(SubSeq(lines, 3, Len(lines)), <<"\n">>))>>
                     \o rest

ParseContent(content) == ParseBlocks(Split(content, <<"\n", "\n">>))

Parse(content) == ParseContent(Strip(content))

(* -------------------------------- files ------------------------------- *)

NoCheckpoint == [state |-> "absent", data |-> <<>>]

CorruptCheckpoint == [state |-> "corrupt", data |-> <<>>]

CheckpointData(es) == [state |-> "json", data |-> es]

NoOutput == [exists |-> FALSE, content |-> <<>>]

OutputText(content) == [exists |-> TRUE, content |-> content]

(* ------------------------- service responses --------------------------- *)

ReplyTexts == {<<"X">>, <<"Y">>}

DictItem(id_type, id, text_null, text) ==
    [shape |-> "dict", has_id |-> TRUE, has_text |-> TRUE,
     id_type |-> id_type, id |-> id, text_null |-> text_null, text |-> text]

NotADict == [DictItem("int", 0, FALSE, <<"X">>) EXCEPT !.shape = "other"]

NoIdItem == [DictItem("int", 0, FALSE, <<"X">>) EXCEPT !.has_id = FALSE]

NoTextItem == [DictItem("int", 0, FALSE, <<"X">>) EXCEPT !.has_text = FALSE]

Items(n) ==
    {DictItem("int", k, FALSE, t) : k \in (-1)..n, t \in ReplyTexts}
        \cup {DictItem("int", k, TRUE, <<>>) : k \in 0..(n - 1)}
        \cup {DictItem("str", 0, FALSE, <<"X">>),
              DictItem("float", 0, FALSE, <<"X">>),
              DictItem("float", n, FALSE, <<"X">>),
              NotADict, NoIdItem, NoTextItem}

SeqsUpTo(S, m) == UNION {[1..k -> S] : k \in 0..m}

InvokeError == [kind |-> "error", iterable |-> FALSE, data |-> <<>>, lines |-> <<>>]

JsonScalar == [kind |-> "json", iterable |-> FALSE, data |-> <<>>, lines |-> <<>>]

JsonList(data) == [kind |-> "json", iterable |-> TRUE, data |-> data, lines |-> <<>>]

PlainText(lines) == [kind |-> "text", iterable |-> FALSE, data |-> <<>>, lines |-> lines]

NoResponse == [kind |-> "none", iterable |-> FALSE, data |-> <<>>, lines |-> <<>>]

ReplyLines ==
    { <<>>,
      <<"[">>,
      <<" ", "{">>,
      <<"\"", "i", "d", "\"", ":", " ", "0", ",">>,
      <<"\"", "t", "e", "x", "t", "\"", ":", " ", "\"", "X", "\"", ",">>,
      <<" ", "Y", " ">>,
      <<",">>,
      <<":", " ", "Z">> }

Upper(c) ==
    IF \E k \in 1..Len(Letters) : Letters[k] = c
    THEN Capitals[CHOOSE k \in 1..Len(Letters) : Letters[k] = c]
    ELSE c

Translation(text) == [k \in 1..Len(text) |-> Upper(text[k])]

WellFormedReply(texts) ==
    JsonList([k \in 1..Len(texts) |->
                DictItem("int", k - 1, FALSE, Translation(texts[k]))])

Responses(texts) ==
    {InvokeError, JsonScalar, WellFormedReply(texts)}
        \cup {JsonList(d) : d \in SeqsUpTo(Items(Len(texts)), MaxReplyItems)}
        \cup {PlainText(ls) : ls \in SeqsUpTo(ReplyLines, MaxReplyLines)}

PipelineResponses(texts) ==
    {InvokeError, WellFormedReply(texts),
     JsonList(<<DictItem("int", 0, FALSE, <<"X">>)>>),
     JsonList(<<DictItem("str", 0, FALSE, <<"X">>)>>),
     PlainText(<<<<" ", "Y", " ">>>>)}

(* --------------------------- batch translator -------------------------- *)

None == [none |-> TRUE, text |-> <<>>]

Some(text) == [none |-> FALSE, text |-> text]

TypeError == [error |-> TRUE, slots |-> <<>>]

RECURSIVE PlaceItems(_, _)
PlaceItems(data, slots) ==
    IF data = <<>> THEN [error |-> FALSE, slots |-> slots]
    ELSE LET item == Head(data) IN
         IF item.shape = "dict" /\ item.has_id /\ item.has_text
         THEN IF item.id_type = "str" THEN TypeError
              ELSE IF 0 <= item.id /\ item.id < Len(slots)
                   THEN IF item.id_type = "float" THEN TypeError
                        ELSE PlaceItems(Tail(data),
                                 [slots EXCEPT ![item.id + 1] =
                                     IF item.text_null THEN None
                                     ELSE Some(item.text)])
                   ELSE PlaceItems(Tail(data), slots)
         ELSE PlaceItems(Tail(data), slots)

FillMissing(slots, texts) ==
    [k \in 1..Len(texts) |->
        IF slots[k].none THEN texts[k] ELSE slots[k].text]

RECURSIVE ExtractLines(_)
ExtractLines(lines) ==
    IF lines = <<>> THEN <<>>
    ELSE LET line == Strip(Head(lines))
             rest == ExtractLines(Tail(lines))
         IN IF /\ line # <<>>
               /\ ~StartsWith(line, <<"{">>)
               /\ ~StartsWith(line, <<"[">>)
               /\ ~StartsWith(line, <<"\"", "i", "d", "\"">>)
            THEN LET bare == Strip(Replace(Replace(line,
                                 <<"\"", "t", "e", "x", "t", "\"", ":">>),
                                 <<"\"">>))
                     cut == IF StartsWith(bare, <<":", " ">>)
                            THEN Drop(bare, 2) ELSE bare
                 IN IF cut # <<>> /\ cut # <<",">>
                    THEN <<cut>> \o rest ELSE rest
            ELSE rest

PadWithOriginals_FromStart(translations, original_texts) ==
    translations \o
        [k \in 1..(Len(original_texts) - Len(translations)) |->
            original_texts[k]]

RECURSIVE PadWithOriginals(_, _)
PadWithOriginals(translations, original_texts) ==
    IF Len(translations) < Len(original_texts)
    THEN PadWithOriginals(
             Append(translations, original_texts[Len(translations) + 1]),
             original_texts)
    ELSE translations

FallbackParseResponse_NoTruncate(lines, original_texts) ==
    PadWithOriginals(ExtractLines(lines), original_texts)

FallbackParseResponse(lines, original_texts) ==
    SubSeq(PadWithOriginals(ExtractLines(lines), original_texts),
           1, Len(original_texts))

Returns(texts) == [raised |-> FALSE, texts |-> texts]

Raises == [raised |-> TRUE, texts |-> <<>>]

InvokeFailed_Raises(texts) == Raises

InvokeFailed(texts) == Returns(texts)

TranslateBatchTexts(texts, resp) ==
    IF resp.kind = "error" THEN InvokeFailed(texts)
    ELSE IF resp.kind = "json"
    THEN IF ~resp.iterable THEN Returns(texts)
         ELSE LET placed == PlaceItems(resp.data, [k \in 1..Len(texts) |-> None])
              IN IF placed.error THEN Returns(texts)
                 ELSE Returns(FillMissing(placed.slots, texts))
    ELSE Returns(FallbackParseResponse(resp.lines, texts))

(* --------------------------- checkpoint store -------------------------- *)

ScalarCheckpoint == [state |-> "scalar", data |-> <<>>]

EntryFields == {"index", "start_time", "end_time", "text"}

KeyErrorAt(data) ==
    {k \in 1..Len(data) : ~(EntryFields \subseteq DOMAIN data[k])}

LoadedEntries(data) ==
    [k \in 1..Len(data) |->
        SubtitleEntry(data[k].index, data[k].start_time,
                      data[k].end_time, data[k].text)]

LoadFailed_KeepsPartial(data) ==
    LET first == CHOOSE k \in KeyErrorAt(data) :
                     \A m \in KeyErrorAt(data) : k <= m
    IN LoadedEntries(SubSeq(data, 1, first - 1))

LoadFailed(data) == <<>>

LoadCheckpoint(file) ==
    IF file.state = "absent" THEN <<>>
    ELSE IF file.state \in {"corrupt", "scalar"} THEN <<>>
    ELSE IF KeyErrorAt(file.data) # {} THEN LoadFailed(file.data)
    ELSE LoadedEntries(file.data)

SaveCheckpoint_DropsLast(file, translated, outcome) ==
    IF outcome = "ok" THEN
        CheckpointData([k \in 1..(Len(translated) - 1) |->
            [index |-> translated[k].index,
             start_time |-> translated[k].start_time,
             end_time |-> translated[k].end_time,
             text |-> translated[k].text]])
    ELSE IF outcome = "open_fails" THEN file
    ELSE CorruptCheckpoint

SaveCheckpoint(file, translated, outcome) ==
    IF outcome = "ok" THEN
        CheckpointData([k \in 1..Len(translated) |->
            [index |-> translated[k].index,
             start_time |-> translated[k].start_time,
             end_time |-> translated[k].end_time,
             text |-> translated[k].text]])
    ELSE IF outcome = "open_fails" THEN file
    ELSE CorruptCheckpoint

SaveRaises_Propagates(outcome) == outcome # "ok"

SaveRaises(outcome) == FALSE

WriteSrt(translated) == OutputText(SrtText(translated))

(* ------------------------------- pipeline ------------------------------ *)

VARIABLES
    entries,             \* the parsed input file, the same in every run
    batch_size,          \* the batch_size argument, the same in every run
    checkpoint_file,     \* {output_file}.checkpoint on disk
    output_file,         \* output_file on disk
    translated_entries,  \* the accumulated result of the current run
    start_index,         \* the resume point of the current run
    i,                   \* the loop variable of translate_file
    response,            \* the service's answer for the batch in hand
    translated_texts,    \* what _translate_batch_texts returned for it
    pc,                  \* where the current run is
    error,               \* the call whose exception escaped translate_file
    runs,                \* how many runs were started
    calls,               \* service calls issued by the current run
    sent,                \* positions whose text the current run sent out
    last_done,           \* start of the last batch that was fully processed
    resume_floor,        \* last_done when the current run started
    failed,              \* starts of the batches whose service call failed
    save_result,         \* how the last _save_checkpoint of the run ended
    unsaved              \* starts of the batches whose checkpoint write failed

vars == <<entries, batch_size, checkpoint_file, output_file,
          translated_entries, start_index, i, response, translated_texts,
          pc, error, runs, calls, sent, last_done, resume_floor, failed,
          save_result, unsaved>>

Arguments ==
    {<<n, b>> : n \in 0..MaxEntries, b \in 1..MaxBatch}
        \cup {<<ExampleEntries, DefaultBatch>>}

Init ==
    /\ \E a \in Arguments :
        /\ entries = ParsedEntries(a[1])
        /\ batch_size = a[2]
    /\ checkpoint_file = NoCheckpoint
    /\ output_file = NoOutput
    /\ translated_entries = <<>>
    /\ start_index = 0
    /\ i = 0
    /\ response = NoResponse
    /\ translated_texts = <<>>
    /\ pc = "idle"
    /\ error = "none"
    /\ runs = 0
    /\ calls = 0
    /\ sent = {}
    /\ last_done = 0
    /\ resume_floor = 0
    /\ failed = {}
    /\ save_result = "none"
    /\ unsaved = {}

WithoutField(record, field) ==
    [f \in (DOMAIN record) \ {field} |-> record[f]]

StoredRecords(n) ==
    [k \in 1..n |->
        [index |-> ParsedEntries(n)[k].index,
         start_time |-> ParsedEntries(n)[k].start_time,
         end_time |-> ParsedEntries(n)[k].end_time,
         text |-> Translation(ParsedEntries(n)[k].text)]]

StoredCheckpoints(n) ==
    {NoCheckpoint, CorruptCheckpoint, ScalarCheckpoint}
        \cup {CheckpointData(StoredRecords(k)) : k \in 0..(n + 1)}
        \cup UNION {{CheckpointData([StoredRecords(k) EXCEPT
                                        ![j] = WithoutField(@, f)]) :
                         j \in 1..k, f \in EntryFields} : k \in 1..(n + 1)}

InitStored ==
    /\ \E a \in Arguments :
        /\ entries = ParsedEntries(a[1])
        /\ batch_size = a[2]
    /\ checkpoint_file \in StoredCheckpoints(Len(entries))
    /\ output_file = NoOutput
    /\ translated_entries = <<>>
    /\ start_index = 0
    /\ i = 0
    /\ response = NoResponse
    /\ translated_texts = <<>>
    /\ pc = "idle"
    /\ error = "none"
    /\ runs = 0
    /\ calls = 0
    /\ sent = {}
    /\ last_done = 0
    /\ resume_floor = 0
    /\ failed = {}
    /\ save_result = "none"
    /\ unsaved = {}

Running == pc \in {"translate", "save", "write", "cleanup"}

LoopPc_OffByOne(index) ==
    IF index <= Len(entries) THEN "translate" ELSE "cleanup"

LoopPc(index) == IF index < Len(entries) THEN "translate" ELSE "cleanup"

batch_end == Min(i + batch_size, Len(entries))

batch_entries_Unbounded == SubSeq(entries, i + 1, Len(entries))

batch_entries == SubSeq(entries, i + 1, batch_end)

batch_texts == [j \in 1..Len(batch_entries) |-> batch_entries[j].text]

BatchTranslated_LocalIndex(texts) ==
    [j \in 1..Len(batch_entries) |->
        SubtitleEntry(j,
                      batch_entries[j].start_time,
                      batch_entries[j].end_time,
                      IF j <= Len(texts) THEN texts[j]
                      ELSE batch_entries[j].text)]

BatchTranslated_SwapsTimes(texts) ==
    [j \in 1..Len(batch_entries) |->
        SubtitleEntry(batch_entries[j].index,
                      batch_entries[j].end_time,
                      batch_entries[j].start_time,
                      IF j <= Len(texts) THEN texts[j]
                      ELSE batch_entries[j].text)]

BatchTranslated(texts) ==
    [j \in 1..Len(batch_entries) |->
        SubtitleEntry(batch_entries[j].index,
                      batch_entries[j].start_time,
                      batch_entries[j].end_time,
                      IF j <= Len(texts) THEN texts[j]
                      ELSE batch_entries[j].text)]

StartRun ==
    /\ ~Running
    /\ runs < MaxRuns
    /\ runs' = runs + 1
    /\ translated_entries' = LoadCheckpoint(checkpoint_file)
    /\ start_index' = Len(translated_entries')
    /\ i' = start_index'
    /\ pc' = LoopPc(i')
    /\ error' = "none"
    /\ calls' = 0
    /\ sent' = {}
    /\ resume_floor' = last_done
    /\ response' = NoResponse
    /\ translated_texts' = <<>>
    /\ failed' = {}
    /\ save_result' = "none"
    /\ unsaved' = {}
    /\ UNCHANGED <<entries, batch_size, checkpoint_file, output_file, last_done>>

TranslateBatch(resp) ==
    /\ pc = "translate"
    /\ response' = resp
    /\ calls' = calls + 1
    /\ sent' = sent \cup (i..(batch_end - 1))
    /\ failed' = IF resp.kind = "error" THEN failed \cup {i} ELSE failed
    /\ LET result == TranslateBatchTexts(batch_texts, resp) IN
         IF result.raised
         THEN /\ pc' = "raised"
              /\ error' = "translate_batch_texts"
              /\ UNCHANGED <<translated_texts, translated_entries, unsaved>>
         ELSE /\ translated_texts' = result.texts
              /\ translated_entries' =
                     translated_entries \o BatchTranslated(result.texts)
              /\ pc' = "save"
              /\ UNCHANGED error
    /\ UNCHANGED <<entries, batch_size, checkpoint_file, output_file,
                   start_index, i, runs, last_done, resume_floor, save_result, unsaved>>

Translate ==
    /\ pc = "translate"
    /\ \E resp \in PipelineResponses(batch_texts) : TranslateBatch(resp)

TranslateAny ==
    /\ pc = "translate"
    /\ \E resp \in Responses(batch_texts) : TranslateBatch(resp)

TranslateDeterministic ==
    /\ pc = "translate"
    /\ TranslateBatch(WellFormedReply(batch_texts))

SaveStep(outcome) ==
    /\ pc = "save"
    /\ checkpoint_file' =
           SaveCheckpoint(checkpoint_file, translated_entries, outcome)
    /\ save_result' = outcome
    /\ unsaved' = IF outcome = "ok" THEN unsaved ELSE unsaved \cup {i}
    /\ IF SaveRaises(outcome)
       THEN pc' = "raised" /\ error' = "save_checkpoint"
       ELSE pc' = "write" /\ UNCHANGED error
    /\ UNCHANGED <<entries, batch_size, output_file, translated_entries,
                   start_index, i, response, translated_texts, runs,
                   calls, sent, last_done, resume_floor, failed>>

Save == SaveStep("ok")

SaveFails == \E outcome \in {"open_fails", "dump_fails"} : SaveStep(outcome)

Write ==
    /\ pc = "write"
    /\ output_file' = WriteSrt(translated_entries)
    /\ last_done' = i
    /\ i' = i + batch_size
    /\ pc' = LoopPc(i')
    /\ response' = NoResponse
    /\ translated_texts' = <<>>
    /\ UNCHANGED <<entries, batch_size, checkpoint_file, translated_entries,
                   start_index, error, runs, calls, sent, resume_floor,
                   failed, save_result, unsaved>>

PartialOutputs ==
    {WriteSrt(SubSeq(translated_entries, 1, k)) :
        k \in 0..(Len(translated_entries) - 1)}

WriteFails ==
    /\ pc = "write"
    /\ output_file' \in {output_file} \cup PartialOutputs
    /\ pc' = "raised"
    /\ error' = "write_srt"
    /\ UNCHANGED <<entries, batch_size, checkpoint_file, translated_entries,
                   start_index, i, response, translated_texts, runs, calls,
                   sent, last_done, resume_floor,
                   failed, save_result, unsaved>>

Cleanup_KeepsCheckpoint ==
    /\ pc = "cleanup"
    /\ pc' = "returned"
    /\ UNCHANGED <<entries, batch_size, checkpoint_file, output_file,
                   translated_entries, start_index, i, response,
                   translated_texts, error, runs, calls, sent, last_done,
                   resume_floor, failed, save_result, unsaved>>

Cleanup ==
    /\ pc = "cleanup"
    /\ checkpoint_file' = NoCheckpoint
    /\ pc' = "returned"
    /\ UNCHANGED <<entries, batch_size, output_file, translated_entries,
                   start_index, i, response, translated_texts, error, runs,
                   calls, sent, last_done, resume_floor,
                   failed, save_result, unsaved>>

RemoveFails ==
    /\ pc = "cleanup"
    /\ checkpoint_file.state # "absent"
    /\ pc' = "raised"
    /\ error' = "os.remove"
    /\ UNCHANGED <<entries, batch_size, checkpoint_file, output_file,
                   translated_entries, start_index, i, response,
                   translated_texts, runs, calls, sent, last_done,
                   resume_floor,
                   failed, save_result, unsaved>>

Kill ==
    /\ Running
    /\ pc' = "killed"
    /\ UNCHANGED <<entries, batch_size, checkpoint_file, output_file,
                   translated_entries, start_index, i, response,
                   translated_texts, error, runs, calls, sent, last_done,
                   resume_floor,
                   failed, save_result, unsaved>>

KillInSave ==
    /\ pc = "save"
    /\ checkpoint_file' = CorruptCheckpoint
    /\ pc' = "killed"
    /\ UNCHANGED <<entries, batch_size, output_file, translated_entries,
                   start_index, i, response, translated_texts, error, runs,
                   calls, sent, last_done, resume_floor,
                   failed, save_result, unsaved>>

KillInWrite ==
    /\ pc = "write"
    /\ output_file' \in PartialOutputs
    /\ pc' = "killed"
    /\ UNCHANGED <<entries, batch_size, checkpoint_file, translated_entries,
                   start_index, i, response, translated_texts, error, runs,
                   calls, sent, last_done, resume_floor,
                   failed, save_result, unsaved>>

Next ==
    \/ StartRun
    \/ Translate
    \/ Save
    \/ SaveFails
    \/ Write
    \/ WriteFails
    \/ Cleanup
    \/ RemoveFails
    \/ Kill
    \/ KillInSave
    \/ KillInWrite

Spec == Init /\ [][Next]_vars

NextDet ==
    \/ StartRun
    \/ TranslateDeterministic
    \/ Save
    \/ Write
    \/ Cleanup
    \/ Kill
    \/ KillInSave
    \/ KillInWrite

SpecDet == Init /\ [][NextDet]_vars

NextStored ==
    \/ StartRun
    \/ TranslateDeterministic
    \/ Save
    \/ Write
    \/ Cleanup

SpecStored == InitStored /\ [][NextStored]_vars

TranslateOrFail ==
    /\ pc = "translate"
    /\ \E resp \in {InvokeError, WellFormedReply(batch_texts)} :
           TranslateBatch(resp)

RunStep ==
    \/ TranslateOrFail
    \/ Save
    \/ Write
    \/ WriteFails
    \/ Cleanup
    \/ RemoveFails

NextLive ==
    \/ StartRun
    \/ RunStep
    \/ Kill

SpecLive == Init /\ [][NextLive]_vars /\ WF_vars(RunStep)

NextTranslate ==
    \/ StartRun
    \/ TranslateAny

SpecTranslate == Init /\ [][NextTranslate]_vars

(* ------------------------------ round trip ---------------------------- *)

WrittenTexts ==
    {<<"a">>, <<"a", "\n", "b">>, <<" ", "a">>, <<"a", " ", "b">>,
     <<>>, <<" ">>, <<"a", " ">>, <<"a", "\n">>, <<"\n", "a">>,
     <<"a", "\n", "\n", "b">>}

WrittenIndexes == {1, 12}

WrittenEntries ==
    {SubtitleEntry(n, <<Stamps[1]>>, <<Stamps[2]>>, text) :
        n \in WrittenIndexes, text \in WrittenTexts}

InitRoundTrip ==
    /\ translated_entries \in SeqsUpTo(WrittenEntries, MaxWritten)
    /\ entries = <<>>
    /\ batch_size = 1
    /\ checkpoint_file = NoCheckpoint
    /\ output_file = NoOutput
    /\ start_index = 0
    /\ i = 0
    /\ response = NoResponse
    /\ translated_texts = <<>>
    /\ pc = "write_srt"
    /\ error = "none"
    /\ runs = 0
    /\ calls = 0
    /\ sent = {}
    /\ last_done = 0
    /\ resume_floor = 0
    /\ failed = {}
    /\ save_result = "none"
    /\ unsaved = {}

WriteOutput ==
    /\ pc = "write_srt"
    /\ output_file' = WriteSrt(translated_entries)
    /\ pc' = "parse"
    /\ UNCHANGED <<entries, batch_size, checkpoint_file, translated_entries,
                   start_index, i, response, translated_texts, error, runs,
                   calls, sent, last_done, resume_floor, failed, save_result,
                   unsaved>>

ParseOutput ==
    /\ pc = "parse"
    /\ entries' = Parse(output_file.content)
    /\ pc' = "parsed"
    /\ UNCHANGED <<batch_size, checkpoint_file, output_file,
                   translated_entries, start_index, i, response,
                   translated_texts, error, runs, calls, sent, last_done,
                   resume_floor, failed, save_result, unsaved>>

NextRoundTrip ==
    \/ WriteOutput
    \/ ParseOutput

SpecRoundTrip == InitRoundTrip /\ [][NextRoundTrip]_vars

(* ------------------------------- claims -------------------------------- *)

EntryCount == Len(entries)

BatchesStarted == (i - start_index) \div batch_size + 1

UninterruptedResult ==
    [j \in 1..EntryCount |->
        SubtitleEntry(entries[j].index, entries[j].start_time,
                      entries[j].end_time, Translation(entries[j].text))]

\* C1: with a deterministic service, a run that returns after earlier runs
\* were interrupted returns the sequence and leaves the output file of one
\* uninterrupted run, and sent no entry of the batches before the last one
\* completed to the service again.
C1_ResumeIdempotence ==
    pc = "returned" =>
        /\ translated_entries = UninterruptedResult
        /\ EntryCount > 0 => output_file = WriteSrt(UninterruptedResult)
        /\ \A p \in sent : p >= resume_floor

\* C2: when the service call of a batch fails, translate_file aborts with the
\* error and the accumulated result, the checkpoint and the output file hold
\* only the batches before it.
C2_FailedCallAborts ==
    response.kind = "error" =>
        /\ pc = "raised"
        /\ Len(translated_entries) = i
        /\ Len(LoadCheckpoint(checkpoint_file)) <= i

\* C3: when the service call of a batch fails, _translate_batch_texts returns
\* the original texts of the batch in order, after one call for the batch and
\* without raising, and the run goes on: the batch is merged with its original
\* texts and no exception of the translator ends the run.
C3_FailedCallFallsBack ==
    /\ error # "translate_batch_texts"
    /\ (response.kind = "error" /\ pc \in {"save", "write"}) =>
           /\ translated_texts = batch_texts
           /\ calls = BatchesStarted
    /\ \A b \in failed :
           \A p \in (b + 1)..Min(b + batch_size, EntryCount) :
               /\ p <= Len(translated_entries)
               /\ translated_entries[p].text = entries[p].text

C3_Witness ==
    /\ pc = "returned"
    /\ \E b \in failed : b + batch_size < EntryCount
    /\ \E p \in 1..EntryCount : translated_entries[p].text # entries[p].text

\* C4: whatever the service answers, _translate_batch_texts returns as many
\* texts as it was given and raises nothing.
C4_SameLength ==
    response.kind # "none" =>
        /\ pc = "save"
        /\ Len(translated_texts) = Len(batch_texts)

C4_Witness ==
    /\ pc = "save"
    /\ response.kind = "text"
    /\ Len(ExtractLines(response.lines)) > Len(batch_texts)
    /\ Len(batch_texts) > 0

WellFormedItem(item, p) ==
    /\ item.shape = "dict"
    /\ item.has_id
    /\ item.has_text
    /\ item.id_type = "int"
    /\ item.id = p
    /\ ~item.text_null

\* C5: for a structured reply, a position with no item of its id holds the
\* original text and a position with an item of its id holds that item's text.
C5_PositionsFromReply ==
    (pc = "save" /\ response.kind = "json" /\ response.iterable) =>
        \A p \in 0..(Len(batch_texts) - 1) :
            LET matching == {k \in 1..Len(response.data) :
                                WellFormedItem(response.data[k], p)}
            IN IF matching = {}
               THEN translated_texts[p + 1] = batch_texts[p + 1]
               ELSE \E k \in matching :
                        translated_texts[p + 1] = response.data[k].text

AfterBatch ==
    \/ pc = "write"
    \/ pc \in {"translate", "save", "cleanup"} /\ i > start_index

ExpectedLength ==
    IF pc = "write" THEN Min(i + batch_size, EntryCount) ELSE Min(i, EntryCount)

C7_OutputIsResult ==
    (output_file.exists /\ pc \in {"translate", "cleanup", "returned"}) =>
        output_file = WriteSrt(translated_entries)

\* C8: a checkpoint file that can be loaded is a prefix of the entry sequence
\* (entry j has the index and the timing of parsed entry j) and ends where a
\* batch ends.
C8_CheckpointIsBatchPrefix ==
    checkpoint_file.state = "json" =>
        LET data == checkpoint_file.data IN
        /\ Len(data) <= EntryCount
        /\ \A j \in 1..Len(data) :
               /\ data[j].index = entries[j].index
               /\ data[j].start_time = entries[j].start_time
               /\ data[j].end_time = entries[j].end_time
        /\ Len(data) > 0
        /\ Len(data) = EntryCount \/ Len(data) % batch_size = 0

C8_Witness ==
    /\ checkpoint_file.state = "json"
    /\ runs = 2
    /\ pc = "killed"
    /\ start_index > 0
    /\ Len(checkpoint_file.data) > start_index
    /\ Len(checkpoint_file.data) < EntryCount

\* C9: when translate_file has returned there is no checkpoint file, and a
\* fresh run over at most batch_size entries (5 entries, batch_size 10) has
\* issued exactly one service call.
C9_NoCheckpointAfterReturn ==
    pc = "returned" =>
        /\ checkpoint_file = NoCheckpoint
        /\ (start_index = 0 /\ 0 < EntryCount /\ EntryCount <= batch_size) =>
               calls = 1

C9_Witness ==
    /\ pc = "returned"
    /\ EntryCount = ExampleEntries
    /\ batch_size = DefaultBatch
    /\ save_result = "ok"
    /\ calls = 1

\* C10: a failure to delete the checkpoint file never makes translate_file
\* raise.
C10_RemoveFailureIsSoft == error # "os.remove"

\* C11: a failed checkpoint write ends no run: the accumulated result keeps
\* the batch, the output file is rewritten with it, the later batches are
\* processed and the run returns one translated entry per input entry.
C11_SaveFailureIsSoft ==
    /\ error # "save_checkpoint"
    /\ (pc = "write" /\ save_result \in {"open_fails", "dump_fails"}) =>
           Len(translated_entries) = batch_end
    /\ (unsaved # {} /\ pc \in {"translate", "cleanup", "returned"}) =>
           /\ output_file = WriteSrt(translated_entries)
           /\ Len(translated_entries) = Min(i, EntryCount)
    /\ (unsaved # {} /\ pc = "returned") =>
           Len(translated_entries) = EntryCount

C11_Witness ==
    /\ pc = "returned"
    /\ \E b \in unsaved : b + batch_size < EntryCount
    /\ save_result = "ok"
    /\ Len(translated_entries) = EntryCount

Unloadable(file) ==
    \/ file.state \in {"absent", "corrupt", "scalar"}
    \/ \E k \in 1..Len(file.data) :
           \E f \in EntryFields : f \notin DOMAIN file.data[k]

JustStarted == runs >= 1 /\ calls = 0 /\ pc \in {"translate", "cleanup"}

\* C12: when there is no checkpoint file, or its content cannot be read, or
\* one of its records lacks a field, the run that loads it starts with an
\* empty result at the first entry.
C12_UnreadableCheckpointIsEmpty ==
    (JustStarted /\ Unloadable(checkpoint_file)) =>
        /\ translated_entries = <<>>
        /\ start_index = 0
        /\ i = 0
        /\ EntryCount > 0 => pc = "translate"

C12_Witness ==
    /\ JustStarted
    /\ pc = "translate"
    /\ checkpoint_file.state = "json"
    /\ Len(checkpoint_file.data) >= 2
    /\ "text" \in DOMAIN checkpoint_file.data[1]
    /\ "text" \notin DOMAIN checkpoint_file.data[2]
    /\ translated_entries = <<>>

\* C14: parsing the file that write_srt produced gives back the entries that
\* were written: same index, start_time, end_time and text, in the same order.
C14_RoundTrip == pc = "parsed" => entries = translated_entries

Representable(text) ==
    /\ text # <<>>
    /\ text[1] # "\n"
    /\ text[Len(text)] \notin Whitespace
    /\ FirstAt(text, <<"\n", "\n">>) = 0

C14_RepresentableRoundTrip ==
    (/\ pc = "parsed"
     /\ \A k \in 1..Len(translated_entries) :
            Representable(translated_entries[k].text))
        => entries = translated_entries

SameSlot(record, entry) ==
    /\ record.index = entry.index
    /\ record.start_time = entry.start_time
    /\ record.end_time = entry.end_time

InParseOrder(records) ==
    /\ Len(records) <= EntryCount
    /\ \A j \in 1..Len(records) : SameSlot(records[j], entries[j])

BatchShape ==
    pc \in {"translate", "save", "write"} =>
        /\ i >= start_index
        /\ (i - start_index) % batch_size = 0
        /\ batch_end > i
        /\ Len(batch_entries) = batch_end - i
        /\ Len(batch_entries) <= batch_size
        /\ Len(batch_entries) < batch_size => batch_end = EntryCount
        /\ \A j \in 1..Len(batch_entries) : batch_entries[j] = entries[i + j]

BatchCover ==
    /\ pc = "translate" => sent = start_index..(i - 1)
    /\ pc \in {"save", "write"} => sent = start_index..(batch_end - 1)
    /\ pc \in {"cleanup", "returned"} => sent = start_index..(EntryCount - 1)

StoredOrder ==
    /\ Running => InParseOrder(translated_entries)
    /\ checkpoint_file.state = "json" => InParseOrder(checkpoint_file.data)

OutputOrder ==
    output_file' # output_file =>
        /\ output_file'.exists
        /\ InParseOrder(Parse(output_file'.content))

BatchStep ==
    /\ (pc = "translate" /\ pc' \in {"save", "raised"}) =>
           /\ sent \cap (i..(batch_end - 1)) = {}
           /\ \A p \in sent : p < i
    /\ (runs' = runs /\ i' # i) => (i' = i + batch_size /\ i' >= batch_end)

\* C13: batches are contiguous slices of at most batch_size entries that
\* cover the positions from the resume point to the last entry with no gap
\* and no overlap, only the last one may be shorter, they are processed in
\* increasing position order, and the checkpoint and the output file list
\* the entries in parse order.
C13_BatchesPartitionInOrder ==
    /\ [](BatchShape /\ BatchCover /\ StoredOrder)
    /\ [][BatchStep /\ OutputOrder]_vars

C13_Witness ==
    /\ pc = "write"
    /\ start_index > 0
    /\ Len(batch_entries) < batch_size
    /\ output_file.exists
    /\ Len(Parse(output_file.content)) = i

Malformed(item, count) ==
    \/ item.shape # "dict"
    \/ ~item.has_id
    \/ ~item.has_text
    \/ item.id_type # "int"
    \/ item.id < 0
    \/ item.id >= count

\* C15: in a structured reply whose texts are all strings, malformed items
\* and items with an out-of-range id are skipped without affecting the
\* others: every position named by a well-formed item holds the text of
\* such an item.
C15_MalformedItemsIgnored ==
    (/\ pc = "save"
     /\ response.kind = "json"
     /\ response.iterable
     /\ \A k \in 1..Len(response.data) : ~response.data[k].text_null
     /\ \E k \in 1..Len(response.data) :
            Malformed(response.data[k], Len(batch_texts)))
        => \A p \in 0..(Len(batch_texts) - 1) :
               \A k \in 1..Len(response.data) :
                   WellFormedItem(response.data[k], p) =>
                       \E m \in 1..Len(response.data) :
                           /\ WellFormedItem(response.data[m], p)
                           /\ translated_texts[p + 1] = response.data[m].text

\* C16: a run whose loaded checkpoint already has at least as many entries
\* as the input makes no service call, deletes the checkpoint and returns
\* exactly one translated entry per parsed entry.
C16_CompleteCheckpointReturnsAll ==
    (pc = "returned" /\ start_index >= EntryCount) =>
        /\ calls = 0
        /\ checkpoint_file = NoCheckpoint
        /\ Len(translated_entries) = EntryCount
        /\ \A j \in 1..EntryCount : SameSlot(translated_entries[j], entries[j])

BatchAppended ==
    (pc = "translate" /\ pc' = "save") =>
        /\ Len(translated_entries') = Len(translated_entries) + (batch_end - i)
        /\ SubSeq(translated_entries', 1, Len(translated_entries))
               = translated_entries
        /\ \A j \in 1..(batch_end - i) :
               LET made == translated_entries'[Len(translated_entries) + j] IN
               /\ Len(translated_entries) + j = i + j
               /\ DOMAIN made = EntryFields
               /\ made = [entries[i + j] EXCEPT !.text = made.text]

\* C17: each entry a batch appends to the result has the index, start_time
\* and end_time of the parsed entry at the same position and differs from it
\* at most in text, and no step of translate_file changes the parsed entries.
C17_EntriesKeepSlot ==
    /\ [][BatchAppended]_vars
    /\ [][runs > 0 => entries' = entries]_vars

C17_Witness ==
    /\ pc = "save"
    /\ runs = 2
    /\ Len(translated_entries) = batch_end
    /\ batch_end - i = 2
    /\ translated_entries[i + 1].text # entries[i + 1].text
    /\ translated_entries[i + 2].text = entries[i + 2].text

CeilDiv(a, b) == (a + b - 1) \div b

\* C18: with batch_size >= 1 and service calls that return or fail, every
\* run of translate_file ends, and a run that returns after starting below
\* the entry count has issued exactly ceil((entry_count - resume_point) /
\* batch_size) service calls, one per batch.
C18_TerminatesWithCallCount ==
    /\ [](batch_size >= 1)
    /\ []((pc = "returned" /\ start_index < EntryCount) =>
             /\ calls = CeilDiv(EntryCount - start_index, batch_size)
             /\ calls = Cardinality({b \in start_index..(EntryCount - 1) :
                                        (b - start_index) % batch_size = 0}))
    /\ (Running ~> ~Running)

C18_Witness ==
    /\ pc = "returned"
    /\ start_index > 0
    /\ start_index < EntryCount
    /\ calls = 1
    /\ failed # {}

Recovered == ExtractLines(response.lines)

\* C19: when the reply is not structured data the result has one text per
\* batch text: the recovered lines in order, followed by the original texts
\* of the positions beyond them, or only the first lines when more were
\* recovered than the batch has texts.
C19_FallbackPadsOrTruncates ==
    (pc = "save" /\ response.kind = "text") =>
        /\ Len(translated_texts) = Len(batch_texts)
        /\ \A p \in 1..Len(batch_texts) :
               translated_texts[p] = IF p <= Len(Recovered) THEN Recovered[p]
                                     ELSE batch_texts[p]

C19_Witness ==
    /\ pc = "save"
    /\ response.kind = "text"
    /\ Len(Recovered) = 1
    /\ Len(batch_texts) = 2
    /\ translated_texts[2] = batch_texts[2]
    /\ translated_texts[1] # batch_texts[1]

\* C20: whenever translate_file has returned, whatever checkpoint it found
\* at the start and however many entries were parsed, the output file exists
\* and holds exactly the returned entries.
C20_ReturnedOutputIsResult ==
    pc = "returned" =>
        /\ output_file.exists
        /\ output_file = WriteSrt(translated_entries)

====
